---- MODULE Spec2Model ----
(***************************************************************************)
(* Model of the RAII file wrapper of                                       *)
(* src/smart_pointers/usecase_heavy_objects.cpp: class FileHandle (the     *)
(* C-style resource), class File (the move-only owner of one FileHandle    *)
(* kept in a std::unique_ptr) and the scopes of main that create, move,    *)
(* use and destroy File objects, leaving the scope normally or through a   *)
(* thrown exception.                                                       *)
(***************************************************************************)
EXTENDS Integers, Sequences, FiniteSets, TLC

(* Bounds of the model. *)
NumFiles == 2       \* File objects (storage slots) the scope can hold
MaxHandles == 3     \* FileHandle objects make_unique may allocate in a run
XferCap == 2        \* the per-resource transfer count saturates here
MaxVec == 3         \* elements the std::vector<File> may grow to
MaxNameLen == 3     \* longest rhs_name passed to make_rhs
MaxCalls == 3       \* calls of create_and_destroy in a run
MaxUses == 3        \* calls of use_through_base in a run
MaxArity == 3       \* most elements of a tuple<Args...>
NumHolders == 4     \* objects that may hold a std::shared_ptr<Grid>
MaxLen == 3         \* longest vector passed to minimum
NumArrays == 2      \* v2::array objects of a run
MaxBufs == 2        \* buffers malloc may return to array(n) in a run
MaxOpens == 1       \* times a run opens the same file through FileHandle
MaxCloses == 3      \* times a run closes the same file through FileHandle

FileIds == 1..NumFiles
Handles == 1..MaxHandles
Names == {"foo", "bar"}

\* nullptr, the value of an empty std::unique_ptr<FileHandle>
NULL == 0

VARIABLES
  pc,           \* where control is: "body", "exiting", "done", "unwinding",
                \* "handler", "crashed"
  live,         \* live[f]: the File object f is within its lifetime
  fh_,          \* fh_[f]: File::fh_ of f, NULL or the FileHandle it points to
  heap,         \* heap[h]: "free" (never allocated), "alive" or "deleted"
  name_,        \* name_[h]: FileHandle::name_ of h
  opens,        \* opens[h]: number of FileHandle::open calls made on h
  closes,       \* closes[h]: number of FileHandle::close calls made on h
  nextHandle,   \* the FileHandle the next make_unique returns
  xfers,        \* xfers[h]: transfers h went through (saturating at XferCap)
  ownedAtExit,  \* the handles live Files owned when the scope was left
  last,         \* the most recent operation: what it was called on, the
                \* pointers it found, the calls it made in order, its outcome
  vec,          \* the std::vector<File> files of main's container block
  \* polymorphism/usecase_odes.cpp
  rhs_name,     \* the argument of make_rhs, a string of characters
  rhs_ret,      \* the shared_ptr make_rhs returned (NotCalled before)
  \* polymorphism/virtual_destructor.cpp
  dkey,         \* the key passed to create_and_destroy
  b,            \* auto b: the dynamic type of the object b owns, or "null"
  dcur,         \* the class whose destructor runs next, "none" outside one
  dout,         \* the lines written to std::cout
  dmark,        \* the length of dout when b was created
  dcalls,       \* calls of create_and_destroy made
  \* the syntax example (unnamed/part_000)
  sarg,         \* the dynamic type of the object passed to use_through_base
  spos,         \* position in use_through_base: "idle", "poly", "non_poly"
  sout,         \* the lines written to std::cout
  suses,        \* calls of use_through_base made
  \* meta_template_programming/tuple/tuple.cpp
  targs,        \* the arguments of the tuple constructor
  frames,       \* the argument packs of the running tuple_impl constructors
  impl,         \* impl[i]: the member value of tuple_impl<i, ...> once set
  inits,        \* the indices in the order their value was initialized
  tpos,         \* "calling", "initializing", "built"
  got,          \* the last get<i>(): [called, i, value]
  \* smart_pointers/usecase_heavy_objects.cpp, the shared Grid
  holders,      \* holders[s]: [kind, grid_] of object s, kind "none" if dead
  use_count,    \* the use count of the Grid's control block
  grid,         \* "none", "alive" or "destroyed"
  deletes,      \* times the Grid was destroyed
  \* meta_template_programming/type_transformation/usecase_struct_of_array.cpp
  min_ver,      \* the namespace of the minimum called: "v1", "v3", "v4"
  min_T,        \* the template argument T
  min_values,   \* the argument values
  min_ret,      \* what the call gave: [status, value]
  \* raii/placement_new.cpp, namespace v2
  arrays,       \* arrays[o]: [state, ptr, via, heap] of the array object o
  buffers,      \* buffers[m]: "unallocated", "allocated" or "freed"
  frees,        \* frees[m]: calls of free made on buffer m
  astatus,      \* "ok", or after undefined behaviour "corrupt" or "crashed"
  alast,        \* the most recent operation on an array and what it freed
  dtor_calls,   \* v2::dtor_calls
  \* smart_pointers/usecase_heavy_objects.cpp, the C-style block of main
  raw_name,     \* raw_name[h]: FileHandle::name_ of the local h
  raw_opens,    \* raw_opens[n]: calls of open that opened the file n
  raw_closes,   \* raw_closes[n]: calls of close that closed the file n
  raw_last,     \* the most recent call: [op, h, arg, name, outcome], name
                \* being name_ of h before the call
  mpos          \* statements of main's block the run has followed so far,
                \* OffMain once it has done anything else

rhsVars == <<rhs_name, rhs_ret>>
dtorVars == <<dkey, b, dcur, dout, dmark, dcalls>>
syntaxVars == <<sarg, spos, sout, suses>>
tupleVars == <<targs, frames, impl, inits, tpos, got>>
gridVars == <<holders, use_count, grid, deletes>>
minVars == <<min_ver, min_T, min_values, min_ret>>
arrayVars == <<arrays, buffers, frees, astatus, alast, dtor_calls>>
rawVars == <<raw_name, raw_opens, raw_closes, raw_last, mpos>>

fileVars == <<pc, live, fh_, heap, name_, opens, closes, nextHandle, xfers,
              ownedAtExit, last>>

vars == <<fileVars, vec, rhsVars, dtorVars, syntaxVars, tupleVars, gridVars,
          minVars, arrayVars, rawVars>>

Ev(kind, h) == [ev |-> kind, h |-> h]

Op(op, tgt, src, events, outcome) ==
  [op |-> op, tgt |-> tgt, src |-> src,
   preTgt |-> IF tgt = 0 THEN NULL ELSE fh_[tgt],
   preSrc |-> IF src = 0 THEN NULL ELSE fh_[src],
   events |-> events, outcome |-> outcome]

Bump(n) == IF n < XferCap THEN n + 1 ELSE n

(***************************************************************************)
(* FileHandle                                                              *)
(***************************************************************************)

FileHandle_open_Noop(nm, h, name) == nm

\* FileHandle::open: name_ = std::move(name); it returns void and cannot fail
FileHandle_open(nm, h, name) == [nm EXCEPT ![h] = name]

\* FileHandle::close: name_ = "closed."
FileHandle_close(nm, h) == [nm EXCEPT ![h] = "closed."]

(***************************************************************************)
(* File                                                                    *)
(***************************************************************************)

IsSelfAssign_Never(f, g) == FALSE

\* operator=(File&&): if (this == &other) return *this;
IsSelfAssign(f, g) == f = g

AssignMustClose_Never(p) == FALSE

AssignMustClose_Always(p) == TRUE

\* operator=(File&&): if (fh_ != nullptr) fh_->close();
AssignMustClose(p) == p # NULL

DtorMustClose_Never(p) == FALSE

\* ~File: if (fh_ != nullptr) fh_->close();
DtorMustClose(p) == p # NULL

MovedFrom_Copy(p) == p

\* what std::move(other.fh_) leaves in other.fh_ once fh_ took the pointer
MovedFrom(p) == NULL

WriteOutcomes_Checked(p) == IF p # NULL THEN {"ok"} ELSE {"UseAfterRelease"}

\* File::write: fh_->write() with no check of fh_. On a null fh_ the call
\* dereferences nullptr (undefined behaviour): the process is killed, or
\* FileHandle::write reads name_ through the invalid pointer and prints it.
WriteOutcomes(p) == IF p # NULL THEN {"ok"} ELSE {"crash", "garbage"}

\* File(std::string name) : fh_(std::make_unique<FileHandle>())
\*   { fh_->open(std::move(name)); }
Construct(f, name) ==
  /\ pc = "body"
  /\ ~live[f]
  /\ nextHandle <= MaxHandles
  /\ LET h == nextHandle IN
       /\ heap' = [heap EXCEPT ![h] = "alive"]
       /\ name_' = FileHandle_open(name_, h, name)
       /\ opens' = [opens EXCEPT ![h] = @ + 1]
       /\ fh_' = [fh_ EXCEPT ![f] = h]
       /\ nextHandle' = h + 1
       /\ last' = Op("Construct", f, 0, <<Ev("open", h)>>, "ok")
  /\ live' = [live EXCEPT ![f] = TRUE]
  /\ UNCHANGED <<pc, closes, xfers, ownedAtExit>>

AssignFrom_AdoptFirst(f, g, op) ==
  IF IsSelfAssign(f, g)
  THEN /\ last' = Op(op, f, g, <<>>, "ok")
       /\ UNCHANGED <<fh_, heap, name_, closes, xfers>>
  ELSE LET p == fh_[g]
           fh1 == [fh_ EXCEPT ![g] = MovedFrom(p)]
           old == fh1[f]
           fh2 == [fh1 EXCEPT ![f] = p]
           mustClose == AssignMustClose(fh2[f])
           c == fh2[f]
       IN /\ fh_' = fh2
          /\ heap' = IF old # NULL THEN [heap EXCEPT ![old] = "deleted"] ELSE heap
          /\ name_' = IF mustClose THEN FileHandle_close(name_, c) ELSE name_
          /\ closes' = IF mustClose THEN [closes EXCEPT ![c] = @ + 1] ELSE closes
          /\ xfers' = IF p # NULL THEN [xfers EXCEPT ![p] = Bump(@)] ELSE xfers
          /\ last' = Op(op, f, g,
                        <<Ev("adopt", p)>>
                        \o (IF old # NULL THEN <<Ev("delete", old)>> ELSE <<>>)
                        \o (IF mustClose THEN <<Ev("close", c)>> ELSE <<>>),
                        "ok")

\* The body of File::operator=(File&&) with *this = f and other = g:
\*   if (this == &other) return *this;
\*   if (fh_ != nullptr) fh_->close();
\*   fh_ = std::move(other.fh_);     (unique_ptr: reset(other.fh_.release()),
\*                                    which deletes the FileHandle fh_ held)
AssignFrom(f, g, op) ==
  IF IsSelfAssign(f, g)
  THEN /\ last' = Op(op, f, g, <<>>, "ok")
       /\ UNCHANGED <<fh_, heap, name_, closes, xfers>>
  ELSE LET c == fh_[f]
           mustClose == AssignMustClose(c)
           p == fh_[g]
           fh1 == [fh_ EXCEPT ![g] = MovedFrom(p)]
           old == fh1[f]
           fh2 == [fh1 EXCEPT ![f] = p]
       IN /\ name_' = IF mustClose THEN FileHandle_close(name_, c) ELSE name_
          /\ closes' = IF mustClose THEN [closes EXCEPT ![c] = @ + 1] ELSE closes
          /\ fh_' = fh2
          /\ heap' = IF old # NULL THEN [heap EXCEPT ![old] = "deleted"] ELSE heap
          /\ xfers' = IF p # NULL THEN [xfers EXCEPT ![p] = Bump(@)] ELSE xfers
          /\ last' = Op(op, f, g,
                        (IF mustClose THEN <<Ev("close", c)>> ELSE <<>>)
                        \o <<Ev("adopt", p)>>
                        \o (IF old # NULL THEN <<Ev("delete", old)>> ELSE <<>>),
                        "ok")

\* File &operator=(File &&other), called as f = std::move(g); g may be f
MoveAssign(f, g) ==
  /\ pc = "body"
  /\ live[f] /\ live[g]
  /\ AssignFrom(f, g, "MoveAssign")
  /\ UNCHANGED <<pc, live, opens, nextHandle, ownedAtExit>>

\* File(File &&other) { (*this) = std::move(other); }: fh_ is default
\* initialized to nullptr, then operator= runs on the new object f
MoveConstruct(f, g) ==
  /\ pc = "body"
  /\ ~live[f] /\ live[g]
  /\ fh_[f] = NULL
  /\ AssignFrom(f, g, "MoveConstruct")
  /\ live' = [live EXCEPT ![f] = TRUE]
  /\ UNCHANGED <<pc, opens, nextHandle, ownedAtExit>>

\* void write() { fh_->write(); }
Write(f) ==
  /\ pc = "body"
  /\ live[f]
  /\ \E out \in WriteOutcomes(fh_[f]) :
       /\ last' = Op("Write", f, 0,
                     IF out = "ok" THEN <<Ev("write", fh_[f])>> ELSE <<>>, out)
       /\ pc' = IF out = "crash" THEN "crashed" ELSE pc
  /\ UNCHANGED <<live, fh_, heap, name_, opens, closes, nextHandle, xfers,
                 ownedAtExit>>

\* ~File() { if (fh_ != nullptr) fh_->close(); } followed by the destruction
\* of the member fh_, which deletes the FileHandle it points to
Destructor(f, op) ==
  LET p == fh_[f]
      mustClose == DtorMustClose(p)
  IN /\ name_' = IF mustClose THEN FileHandle_close(name_, p) ELSE name_
     /\ closes' = IF mustClose THEN [closes EXCEPT ![p] = @ + 1] ELSE closes
     /\ heap' = IF p # NULL THEN [heap EXCEPT ![p] = "deleted"] ELSE heap
     /\ fh_' = [fh_ EXCEPT ![f] = NULL]
     /\ live' = [live EXCEPT ![f] = FALSE]
     /\ last' = Op(op, f, 0,
                   (IF mustClose THEN <<Ev("close", p)>> ELSE <<>>)
                   \o (IF p # NULL THEN <<Ev("delete", p)>> ELSE <<>>),
                   "ok")

\* the lifetime of one File ends while the scope is still running (an inner
\* block closes, a container drops an element)
Destroy(f) ==
  /\ pc = "body"
  /\ live[f]
  /\ Destructor(f, "Destroy")
  /\ UNCHANGED <<pc, opens, nextHandle, xfers, ownedAtExit>>

\* the File objects of the running block
Objects == DOMAIN live

Owned == {fh_[f] : f \in {x \in Objects : live[x]}} \ {NULL}

(***************************************************************************)
(* The scopes of main                                                      *)
(***************************************************************************)

\* the closing brace of the block is reached
ScopeEnd ==
  /\ pc = "body"
  /\ pc' = "exiting"
  /\ ownedAtExit' = Owned
  /\ last' = Op("ScopeEnd", 0, 0, <<>>, "ok")
  /\ UNCHANGED <<live, fh_, heap, name_, opens, closes, nextHandle, xfers>>

\* the automatic File objects of the block are destroyed, one per step (the
\* order is left open: every order includes the reverse order of declaration)
ExitDestroy(f) ==
  /\ pc = "exiting"
  /\ live[f]
  /\ Destructor(f, "ExitDestroy")
  /\ UNCHANGED <<pc, opens, nextHandle, xfers, ownedAtExit>>

\* control continues after the block
Done ==
  /\ pc = "exiting"
  /\ \A f \in Objects : ~live[f]
  /\ pc' = "done"
  /\ last' = Op("Done", 0, 0, <<>>, "ok")
  /\ UNCHANGED <<live, fh_, heap, name_, opens, closes, nextHandle, xfers,
                 ownedAtExit>>

\* throw std::runtime_error("oops."); inside the try block
Throw ==
  /\ pc = "body"
  /\ pc' = "unwinding"
  /\ ownedAtExit' = Owned
  /\ last' = Op("Throw", 0, 0, <<>>, "ok")
  /\ UNCHANGED <<live, fh_, heap, name_, opens, closes, nextHandle, xfers>>

\* stack unwinding destroys the automatic File objects of the try block, one
\* per step
Unwind(f) ==
  /\ pc = "unwinding"
  /\ live[f]
  /\ Destructor(f, "Unwind")
  /\ UNCHANGED <<pc, opens, nextHandle, xfers, ownedAtExit>>

\* catch (...) { } is entered once the try block's objects are destroyed
Catch ==
  /\ pc = "unwinding"
  /\ \A f \in Objects : ~live[f]
  /\ pc' = "handler"
  /\ last' = Op("Catch", 0, 0, <<>>, "ok")
  /\ UNCHANGED <<live, fh_, heap, name_, opens, closes, nextHandle, xfers,
                 ownedAtExit>>

\* no File constructed yet, no FileHandle allocated; S: the storage the
\* block has for File objects
FilesInit(S) ==
  /\ pc = "body"
  /\ live = [f \in S |-> FALSE]
  /\ fh_ = [f \in S |-> NULL]
  /\ heap = [h \in Handles |-> "free"]
  /\ name_ = [h \in Handles |-> "uninitialized."]
  /\ opens = [h \in Handles |-> 0]
  /\ closes = [h \in Handles |-> 0]
  /\ nextHandle = 1
  /\ xfers = [h \in Handles |-> 0]
  /\ ownedAtExit = {}
  /\ last = [op |-> "none", tgt |-> 0, src |-> 0, preTgt |-> NULL,
             preSrc |-> NULL, events |-> <<>>, outcome |-> "ok"]

\* an empty std::vector<File>: no storage, no element
VecEmpty == [step |-> "idle", size |-> 0, cap |-> 0, arena |-> 0, k |-> 0,
             what |-> "none", pushed |-> FALSE]

(***************************************************************************)
(* The programs of the repository are independent: a run executes one of   *)
(* them, and the variables of the others stay as they are here.            *)
(***************************************************************************)

FilesIdle == FilesInit(FileIds) /\ vec = VecEmpty

\* no call of make_rhs has returned yet
NotCalled == [obj |-> NULL, dyn |-> "not_called"]

RhsIdle == rhs_name = <<>> /\ rhs_ret = NotCalled

DtorIdle ==
  /\ dkey = "" /\ b = "null" /\ dcur = "none"
  /\ dout = <<>> /\ dmark = 0 /\ dcalls = 0

SyntaxIdle == sarg = "none" /\ spos = "idle" /\ sout = <<>> /\ suses = 0

TupleIdle ==
  /\ targs = <<>> /\ frames = <<>> /\ impl = <<>> /\ inits = <<>>
  /\ tpos = "built" /\ got = [called |-> FALSE, i |-> 0, value |-> 0]

GridIdle ==
  /\ holders = [s \in 1..NumHolders |-> [kind |-> "none", grid_ |-> NULL]]
  /\ use_count = 0 /\ grid = "none" /\ deletes = 0

\* no call of minimum has been made
NoResult == [status |-> "none", value |-> [kind |-> "finite", v |-> 0]]

MinIdle ==
  /\ min_ver = "none" /\ min_T = "none" /\ min_values = <<>>
  /\ min_ret = NoResult

\* an array object that does not exist (yet)
NoArray == [state |-> "none", ptr |-> NULL, via |-> "none", heap |-> FALSE]

NoArrayOp == [op |-> "none", tgt |-> 0, pre |-> NoArray, freed |-> NULL]

ArrayIdle ==
  /\ arrays = [o \in 1..NumArrays |-> NoArray]
  /\ buffers = [m \in 1..MaxBufs |-> "unallocated"]
  /\ frees = [m \in 1..MaxBufs |-> 0]
  /\ astatus = "ok" /\ alast = NoArrayOp /\ dtor_calls = 0

RawHandles == {"foo", "bar"}
RawFiles == {"foo (fh)", "foo (reborn)", "bar (fh)"}

NoRawCall ==
  [op |-> "none", h |-> "none", arg |-> "", name |-> "", outcome |-> "none"]

RawIdle ==
  /\ raw_name = [h \in RawHandles |-> "uninitialized."]
  /\ raw_opens = [n \in RawFiles |-> 0]
  /\ raw_closes = [n \in RawFiles |-> 0]
  /\ raw_last = NoRawCall /\ mpos = 0

OnlyFiles ==
  UNCHANGED <<vec, rhsVars, dtorVars, syntaxVars, tupleVars, gridVars,
              minVars, arrayVars, rawVars>>
OnlyVec ==
  UNCHANGED <<rhsVars, dtorVars, syntaxVars, tupleVars, gridVars,
              minVars, arrayVars, rawVars>>
OnlyRhs ==
  UNCHANGED <<fileVars, vec, dtorVars, syntaxVars, tupleVars, gridVars,
              minVars, arrayVars, rawVars>>
OnlyDtor ==
  UNCHANGED <<fileVars, vec, rhsVars, syntaxVars, tupleVars, gridVars,
              minVars, arrayVars, rawVars>>
OnlySyntax ==
  UNCHANGED <<fileVars, vec, rhsVars, dtorVars, tupleVars, gridVars,
              minVars, arrayVars, rawVars>>
OnlyTuple ==
  UNCHANGED <<fileVars, vec, rhsVars, dtorVars, syntaxVars, gridVars,
              minVars, arrayVars, rawVars>>
OnlyGrid ==
  UNCHANGED <<fileVars, vec, rhsVars, dtorVars, syntaxVars, tupleVars,
              minVars, arrayVars, rawVars>>
OnlyMin ==
  UNCHANGED <<fileVars, vec, rhsVars, dtorVars, syntaxVars, tupleVars,
              gridVars, arrayVars, rawVars>>
OnlyArray ==
  UNCHANGED <<fileVars, vec, rhsVars, dtorVars, syntaxVars, tupleVars,
              gridVars, minVars, rawVars>>
OnlyRaw ==
  UNCHANGED <<fileVars, vec, rhsVars, dtorVars, syntaxVars, tupleVars,
              gridVars, minVars, arrayVars>>

\* the programs of the other source files have not run
OthersIdle == MinIdle /\ ArrayIdle /\ RawIdle

Init ==
  /\ FilesInit(FileIds)
  /\ vec = VecEmpty
  /\ RhsIdle /\ DtorIdle /\ SyntaxIdle /\ TupleIdle /\ GridIdle
  /\ OthersIdle

Next ==
  \/ (\E f \in FileIds, name \in Names : Construct(f, name)) /\ OnlyFiles
  \/ (\E f, g \in FileIds : MoveConstruct(f, g)) /\ OnlyFiles
  \/ (\E f, g \in FileIds : MoveAssign(f, g)) /\ OnlyFiles
  \/ (\E f \in FileIds : Write(f)) /\ OnlyFiles
  \/ (\E f \in FileIds : Destroy(f)) /\ OnlyFiles
  \/ ScopeEnd /\ OnlyFiles
  \/ (\E f \in FileIds : ExitDestroy(f)) /\ OnlyFiles
  \/ Done /\ OnlyFiles
  \/ Throw /\ OnlyFiles
  \/ (\E f \in FileIds : Unwind(f)) /\ OnlyFiles
  \/ Catch /\ OnlyFiles

Spec == Init /\ [][Next]_vars

(***************************************************************************)
(* std::vector<File> files; the container block of main.  The vector keeps *)
(* its elements in one storage block; when it is full, growing allocates a *)
(* larger block, constructs the new element there, move-constructs the old *)
(* elements into it (File has no copy constructor) and destroys the old    *)
(* ones.  Slot Local is the automatic File foo; the two storage blocks in  *)
(* use at any time are the arenas 0 and 1.                                 *)
(***************************************************************************)

Stride == 2 * MaxVec
Local == 1
Cell(a, i) == 1 + a * Stride + i
VSlots == 1..(1 + 2 * Stride)

\* the capacity after growing: size + max(size, 1)
GrownCap(n) == IF n = 0 THEN 1 ELSE 2 * n

Full == vec.size = vec.cap
Other(a) == 1 - a

\* where the element being appended is constructed
NewCell == IF Full THEN Cell(Other(vec.arena), vec.size + 1)
           ELSE Cell(vec.arena, vec.size + 1)

\* the vector after the new element has been constructed: done when there
\* was room or nothing to relocate, else the elements are moved next
Appended(what) ==
  IF ~Full THEN [vec EXCEPT !.size = @ + 1, !.what = what]
  ELSE IF vec.size = 0
       THEN [vec EXCEPT !.size = 1, !.cap = GrownCap(0),
                        !.arena = Other(@), !.what = what]
       ELSE [vec EXCEPT !.step = "moving", !.k = 1, !.what = what]

\* File foo("foo (vec)");
VecLocalConstruct(name) ==
  /\ vec.step = "idle"
  /\ Construct(Local, name)
  /\ vec' = [vec EXCEPT !.what = "local"]

\* files.emplace_back("f1 (vec)");
VecEmplaceBack(name) ==
  /\ vec.step = "idle"
  /\ vec.size < MaxVec
  /\ Construct(NewCell, name)
  /\ vec' = Appended("emplace_back")

\* files.push_back(std::move(foo));
VecPushBack ==
  /\ vec.step = "idle"
  /\ vec.size < MaxVec
  /\ MoveConstruct(NewCell, Local)
  /\ vec' = [Appended("push_back") EXCEPT !.pushed = @ \/ fh_[Local] # NULL]

\* growing: element k of the old storage is move-constructed into the new
VecRelocate ==
  /\ vec.step = "moving"
  /\ MoveConstruct(Cell(Other(vec.arena), vec.k), Cell(vec.arena, vec.k))
  /\ vec' = IF vec.k < vec.size
            THEN [vec EXCEPT !.k = @ + 1, !.what = "relocate"]
            ELSE [vec EXCEPT !.step = "dropping", !.k = 1, !.what = "relocate"]

\* growing: element k of the old storage is destroyed; after the last one the
\* old storage is released and the vector uses the new one
VecDropOld ==
  /\ vec.step = "dropping"
  /\ Destroy(Cell(vec.arena, vec.k))
  /\ vec' = IF vec.k < vec.size
            THEN [vec EXCEPT !.k = @ + 1, !.what = "drop_old"]
            ELSE [vec EXCEPT !.step = "idle", !.k = 0, !.size = @ + 1,
                             !.cap = GrownCap(@), !.arena = Other(@),
                             !.what = "drop_old"]

\* the closing brace of the container block
VecScopeEnd ==
  /\ vec.step = "idle"
  /\ ScopeEnd
  /\ vec' = [vec EXCEPT !.what = "scope_end"]

\* foo, declared last, is destroyed first
VecExitLocal ==
  /\ ExitDestroy(Local)
  /\ vec' = [vec EXCEPT !.what = "exit_local"]

\* ~vector destroys the elements from the first to the last
VecExitElement ==
  /\ ~live[Local]
  /\ \E i \in 1..vec.size :
       /\ \A j \in 1..(i - 1) : ~live[Cell(vec.arena, j)]
       /\ ExitDestroy(Cell(vec.arena, i))
  /\ vec' = [vec EXCEPT !.what = "exit_element"]

\* control continues after the block
VecDone ==
  /\ Done
  /\ vec' = [vec EXCEPT !.what = "done"]

VecInit ==
  /\ FilesInit(VSlots)
  /\ vec = VecEmpty
  /\ RhsIdle /\ DtorIdle /\ SyntaxIdle /\ TupleIdle /\ GridIdle
  /\ OthersIdle

VecNext ==
  \/ (\E name \in Names : VecLocalConstruct(name)) /\ OnlyVec
  \/ (\E name \in Names : VecEmplaceBack(name)) /\ OnlyVec
  \/ VecPushBack /\ OnlyVec
  \/ VecRelocate /\ OnlyVec
  \/ VecDropOld /\ OnlyVec
  \/ VecScopeEnd /\ OnlyVec
  \/ VecExitLocal /\ OnlyVec
  \/ VecExitElement /\ OnlyVec
  \/ VecDone /\ OnlyVec

SpecVec == VecInit /\ [][VecNext]_vars

(***************************************************************************)
(* polymorphism/usecase_odes.cpp: the factory make_rhs                     *)
(***************************************************************************)

Chars == {"e", "x", "p", "q"}

\* the strings of at most n characters
RECURSIVE Strings(_)
Strings(n) ==
  IF n = 0 THEN {<<>>}
  ELSE LET shorter == Strings(n - 1)
       IN shorter \cup {Append(w, c) : w \in shorter, c \in Chars}

\* the literal "exp"
EXP == <<"e", "x", "p">>

\* std::shared_ptr<ExpRHS>(): a default-constructed shared_ptr owns nothing
\* and holds a null pointer; no ExpRHS object is created
DefaultSharedPtr(T) == [obj |-> NULL, dyn |-> "none"]

\* return nullptr; converted to std::shared_ptr<RHS>
NullSharedPtr == [obj |-> NULL, dyn |-> "none"]

\* std::shared_ptr<RHS> make_rhs(const std::string &rhs_name)
make_rhs(name) ==
  IF name = EXP THEN DefaultSharedPtr("ExpRHS") ELSE NullSharedPtr

\* a call of make_rhs(rhs_name)
CallMakeRhs ==
  /\ rhs_ret = NotCalled
  /\ rhs_ret' = make_rhs(rhs_name)
  /\ UNCHANGED rhs_name
  /\ OnlyRhs

RhsInit ==
  /\ rhs_name \in Strings(MaxNameLen)
  /\ rhs_ret = NotCalled
  /\ FilesIdle /\ DtorIdle /\ SyntaxIdle /\ TupleIdle /\ GridIdle
  /\ OthersIdle

RhsNext == CallMakeRhs

SpecRhs == RhsInit /\ [][RhsNext]_vars

(***************************************************************************)
(* polymorphism/virtual_destructor.cpp                                     *)
(***************************************************************************)

Keys == {"base", "derived", "more_derived", "", "Base", "moar"}

\* class Derived : public Base, class MoreDerived : public Derived
DtorParent(c) ==
  CASE c = "MoreDerived" -> "Derived"
    [] c = "Derived" -> "Base"
    [] c = "Base" -> "none"

\* std::unique_ptr<Base> make_obj(const std::string &key)
make_obj(k) ==
  IF k = "base" THEN "Base"
  ELSE IF k = "derived" THEN "Derived"
  ELSE "MoreDerived"

DtorIsVirtual_No(c) == FALSE

\* virtual ~Base(): the destructor of every class of the hierarchy is virtual
DtorIsVirtual(c) == TRUE

\* delete of an object of dynamic type dyn through a pointer to static: the
\* destructor that is called first
DeleteEntry(static, dyn) == IF DtorIsVirtual(static) THEN dyn ELSE static

\* the line a destructor writes: std::cout << "C::~C() \n"
DtorLine(c) == [cls |-> c, fn |-> "~"]

\* auto b = make_obj(key);
MakeObj(k) ==
  /\ b = "null" /\ dcur = "none"
  /\ dcalls < MaxCalls
  /\ dkey' = k
  /\ b' = make_obj(k)
  /\ dmark' = Len(dout)
  /\ dcalls' = dcalls + 1
  /\ UNCHANGED <<dcur, dout>>
  /\ OnlyDtor

\* the end of create_and_destroy: ~unique_ptr<Base> deletes the object
\* through its Base pointer
DeleteObj ==
  /\ b # "null" /\ dcur = "none"
  /\ dcur' = DeleteEntry("Base", b)
  /\ UNCHANGED <<dkey, b, dout, dmark, dcalls>>
  /\ OnlyDtor

\* the body of the destructor of class dcur runs, then the destructor of its
\* base class is called; after Base::~Base the object is gone
RunDtor ==
  /\ dcur # "none"
  /\ dout' = Append(dout, DtorLine(dcur))
  /\ dcur' = DtorParent(dcur)
  /\ b' = IF DtorParent(dcur) = "none" THEN "null" ELSE b
  /\ UNCHANGED <<dkey, dmark, dcalls>>
  /\ OnlyDtor

DtorInit ==
  /\ DtorIdle
  /\ FilesIdle /\ RhsIdle /\ SyntaxIdle /\ TupleIdle /\ GridIdle
  /\ OthersIdle

DtorNext ==
  \/ \E k \in Keys : MakeObj(k)
  \/ DeleteObj
  \/ RunDtor

SpecDtor == DtorInit /\ [][DtorNext]_vars

(***************************************************************************)
(* The syntax example (unnamed/part_000): virtual and non-virtual calls    *)
(* through a reference to Base                                             *)
(***************************************************************************)

SyntaxClasses == {"Base", "Derived", "MoreDerived", "OldStyleDerived",
                  "OldStyleDerivedWithTypo"}

SyntaxParent(c) ==
  CASE c = "MoreDerived" -> "Derived"
    [] c \in {"Derived", "OldStyleDerived", "OldStyleDerivedWithTypo"} -> "Base"
    [] c = "Base" -> "none"

Fn(name, isConst) == [name |-> name, const |-> isConst]

\* the member functions a class declares
Declares(c) ==
  IF c = "OldStyleDerivedWithTypo"
  THEN {Fn("poly", TRUE), Fn("non_poly", FALSE)}
  ELSE {Fn("poly", FALSE), Fn("non_poly", FALSE)}

\* virtual void poly() in Base; non_poly is not virtual
VirtualInBase(name) == name = "poly"

SameSignature_NameOnly(d, m) == d.name = m.name

\* a function overrides a virtual function of a base class when it has the
\* same name, parameters and cv-qualifiers
SameSignature(d, m) == d.name = m.name /\ d.const = m.const

\* the final overrider of Base's virtual function m in an object of class c
RECURSIVE FinalOverrider(_, _)
FinalOverrider(c, m) ==
  IF c = "Base" THEN "Base"
  ELSE IF \E d \in Declares(c) : SameSignature(d, m) THEN c
  ELSE FinalOverrider(SyntaxParent(c), m)

\* b.name() on Base &b bound to an object of dynamic type dyn: the class
\* whose function runs
CallThroughBase(dyn, name) ==
  LET m == CHOOSE d \in Declares("Base") : d.name = name
  IN IF VirtualInBase(name) THEN FinalOverrider(dyn, m) ELSE "Base"

\* use_through_base(o) is entered
UseThroughBase(o) ==
  /\ spos = "idle"
  /\ suses < MaxUses
  /\ sarg' = o
  /\ spos' = "poly"
  /\ suses' = suses + 1
  /\ UNCHANGED sout
  /\ OnlySyntax

\* b.poly();
CallPoly ==
  /\ spos = "poly"
  /\ sout' = Append(sout, [cls |-> CallThroughBase(sarg, "poly"), fn |-> "poly"])
  /\ spos' = "non_poly"
  /\ UNCHANGED <<sarg, suses>>
  /\ OnlySyntax

\* b.non_poly();
CallNonPoly ==
  /\ spos = "non_poly"
  /\ sout' = Append(sout, [cls |-> CallThroughBase(sarg, "non_poly"),
                           fn |-> "non_poly"])
  /\ spos' = "idle"
  /\ UNCHANGED <<sarg, suses>>
  /\ OnlySyntax

SyntaxInit ==
  /\ SyntaxIdle
  /\ FilesIdle /\ RhsIdle /\ DtorIdle /\ TupleIdle /\ GridIdle
  /\ OthersIdle

SyntaxNext ==
  \/ \E o \in SyntaxClasses : UseThroughBase(o)
  \/ CallPoly
  \/ CallNonPoly

SpecSyntax == SyntaxInit /\ [][SyntaxNext]_vars

(***************************************************************************)
(* meta_template_programming/tuple/tuple.cpp: tuple and v3::tuple_impl     *)
(***************************************************************************)

Values == {1, 2, 3}

\* the argument lists a_0..a_{n-1} of at most n arguments
RECURSIVE ArgLists(_)
ArgLists(n) ==
  IF n = 0 THEN {<<>>}
  ELSE LET shorter == ArgLists(n - 1)
       IN shorter \cup {Append(w, v) : w \in shorter, v \in Values}

IndexOfFrame_Off(k) == k

\* the template parameter index of the k-th nested constructor: impl is
\* tuple_impl<0, Args...> and super is tuple_impl<index + 1, Args...>
IndexOfFrame(k) == k - 1

Pop(q) == SubSeq(q, 1, Len(q) - 1)

\* tuple_impl(T value, Args &&...args) : super(std::forward<Args>(args)...),
\* the call of the base class constructor with the rest of the pack
CallSuper ==
  /\ tpos = "calling"
  /\ frames[Len(frames)] # <<>>
  /\ frames' = Append(frames, Tail(frames[Len(frames)]))
  /\ UNCHANGED <<targs, impl, inits, tpos, got>>
  /\ OnlyTuple

\* tuple_impl<index> with an empty pack ends the recursion: it has no value
EndRecursion ==
  /\ tpos = "calling"
  /\ frames[Len(frames)] = <<>>
  /\ frames' = Pop(frames)
  /\ tpos' = IF Len(frames) = 1 THEN "built" ELSE "initializing"
  /\ UNCHANGED <<targs, impl, inits, got>>
  /\ OnlyTuple

\* value(value): once its base class is constructed, the innermost running
\* constructor initializes its member from the first argument of its pack
InitValue ==
  /\ tpos = "initializing"
  /\ LET k == Len(frames)
         index == IndexOfFrame(k)
     IN /\ impl' = (index :> Head(frames[k])) @@ impl
        /\ inits' = Append(inits, index)
        /\ frames' = Pop(frames)
        /\ tpos' = IF k = 1 THEN "built" ELSE "initializing"
  /\ UNCHANGED <<targs, got>>
  /\ OnlyTuple

\* get<requested_index>(): the overload of the tuple_impl whose index equals
\* requested_index is the only one enabled; it returns that level's value
tuple_get(i) == impl[CHOOSE index \in DOMAIN impl : index = i]

\* ix.get<i>(); an index with no element does not compile
Get(i) ==
  /\ tpos = "built"
  /\ i \in DOMAIN impl
  /\ got' = [called |-> TRUE, i |-> i, value |-> tuple_get(i)]
  /\ UNCHANGED <<targs, frames, impl, inits, tpos>>
  /\ OnlyTuple

\* tuple(Args &&...args) : impl(std::forward<Args>(args)...) is entered
TupleInit ==
  /\ targs \in ArgLists(MaxArity)
  /\ frames = <<targs>>
  /\ impl = <<>>
  /\ inits = <<>>
  /\ tpos = "calling"
  /\ got = [called |-> FALSE, i |-> 0, value |-> 0]
  /\ FilesIdle /\ RhsIdle /\ DtorIdle /\ SyntaxIdle /\ GridIdle
  /\ OthersIdle

TupleNext ==
  \/ CallSuper
  \/ EndRecursion
  \/ InitValue
  \/ \E i \in 0..MaxArity : Get(i)

SpecTuple == TupleInit /\ [][TupleNext]_vars

(***************************************************************************)
(* smart_pointers/usecase_heavy_objects.cpp: the shared Grid               *)
(***************************************************************************)

Slots == 1..NumHolders

\* the address of the one Grid that make_uniform_grid allocates
GridAddr == 1

\* the classes with a member grid_, directly or through the member rhs_
HolderKinds == {"CellAverage", "SpaceDependentRHS", "SomeODESolver"}

Dead == [kind |-> "none", grid_ |-> NULL]

CopyCount_Same(n) == n

\* copying a std::shared_ptr that owns an object adds one owner
CopyCount(n) == n + 1

\* ~shared_ptr of the last owner deletes the Grid
IsLastOwner(n) == n = 1

\* what an object of each kind can be moved into: a std::shared_ptr into a
\* parameter or into the member grid_, a SpaceDependentRHS into the member
\* rhs_ of a SomeODESolver, every object into one of its own class
MoveTargets(kind) ==
  CASE kind = "shared_ptr" -> {"shared_ptr", "CellAverage", "SpaceDependentRHS"}
    [] kind = "SpaceDependentRHS" -> {"SpaceDependentRHS", "SomeODESolver"}
    [] kind = "CellAverage" -> {"CellAverage"}
    [] kind = "SomeODESolver" -> {"SomeODESolver"}

\* auto grid = make_uniform_grid(100, 100): the one owner of a new Grid
MakeUniformGrid(s) ==
  /\ grid = "none"
  /\ holders[s].kind = "none"
  /\ holders' = [holders EXCEPT ![s] = [kind |-> "shared_ptr", grid_ |-> GridAddr]]
  /\ use_count' = 1
  /\ grid' = "alive"
  /\ UNCHANGED deletes
  /\ OnlyGrid

\* a copy of object s as object t: CellAverage(grid) and make_ode_solver(grid)
\* copy the local std::shared_ptr into the parameter, and the implicit copy
\* constructors of the classes copy the member grid_
Copy(s, t) ==
  /\ holders[s].kind # "none"
  /\ holders[t].kind = "none"
  /\ holders' = [holders EXCEPT ![t] = holders[s]]
  /\ use_count' = IF holders[s].grid_ # NULL THEN CopyCount(use_count)
                  ELSE use_count
  /\ UNCHANGED <<grid, deletes>>
  /\ OnlyGrid

\* object t of class kind is move-constructed from object s, which stays
\* alive and empty: grid_(std::move(grid)), rhs_(std::move(rhs)), the
\* returned tuple's elements; the number of owners does not change
Move(s, t, kind) ==
  /\ holders[s].kind # "none"
  /\ holders[t].kind = "none"
  /\ kind \in MoveTargets(holders[s].kind)
  /\ holders' = [holders EXCEPT ![t] = [kind |-> kind, grid_ |-> holders[s].grid_],
                                ![s].grid_ = NULL]
  /\ UNCHANGED <<use_count, grid, deletes>>
  /\ OnlyGrid

\* the end of the lifetime of object s: ~shared_ptr of its grid_ gives up
\* its share, and the last owner deletes the Grid
DestroyHolder(s) ==
  /\ holders[s].kind # "none"
  /\ holders' = [holders EXCEPT ![s] = Dead]
  /\ IF holders[s].grid_ = NULL
       THEN UNCHANGED <<use_count, grid, deletes>>
       ELSE /\ use_count' = use_count - 1
            /\ IF IsLastOwner(use_count)
                 THEN grid' = "destroyed" /\ deletes' = deletes + 1
                 ELSE UNCHANGED <<grid, deletes>>
  /\ OnlyGrid

GridInit ==
  /\ GridIdle
  /\ FilesIdle /\ RhsIdle /\ DtorIdle /\ SyntaxIdle /\ TupleIdle
  /\ OthersIdle

GridNext ==
  \/ \E s \in Slots : MakeUniformGrid(s)
  \/ \E s, t \in Slots : Copy(s, t)
  \/ \E s, t \in Slots : \E kind \in HolderKinds \cup {"shared_ptr"} :
       Move(s, t, kind)
  \/ \E s \in Slots : DestroyHolder(s)

SpecGrid == GridInit /\ [][GridNext]_vars

(***************************************************************************)
(* meta_template_programming/type_transformation/                          *)
(* usecase_struct_of_array.cpp: minimum                                    *)
(***************************************************************************)

Types == {"short", "int", "float", "double"}
Versions == {"v1", "v3", "v4"}

\* the elements of the vectors
Elems == {-2, 0, 5}

RECURSIVE Vectors(_)
Vectors(n) ==
  IF n = 0 THEN {<<>>}
  ELSE LET shorter == Vectors(n - 1)
       IN shorter \cup {Append(w, x) : w \in shorter, x \in Elems}

is_integral(T) == T \in {"short", "int"}
is_floating_point(T) == T \in {"float", "double"}

\* a number: finite with value v, or the floating point infinity
Finite(v) == [kind |-> "finite", v |-> v]
Infinity == [kind |-> "inf", v |-> 0]

\* std::numeric_limits<T>::max() of the integer types
numeric_limits_max(T) ==
  IF T = "short" THEN Finite(2^15 - 1) ELSE Finite(2^31 - 1)

\* a < b
Less(x, y) ==
  IF x.kind = "inf" THEN FALSE
  ELSE IF y.kind = "inf" THEN TRUE
  ELSE x.v < y.v

\* std::min(a, b): b if b < a, else a
std_min(x, y) == IF Less(y, x) THEN y ELSE x

\* minimum_traits<T> is defined: v3 is specialized for int and for double,
\* v4 for every integral and every floating point type
HasTraits(ver, T) ==
  IF ver = "v3" THEN T \in {"int", "double"}
  ELSE is_integral(T) \/ is_floating_point(T)

\* minimum_traits<T>::initialization_value()
initialization_value(T) ==
  IF is_integral(T) THEN numeric_limits_max(T) ELSE Infinity

\* std::min(xmin, x) with double xmin and T x: template argument deduction
\* of std::min(const T&, const T&) needs both arguments of one type
MinDeduces(T) == T = "double"

\* for (auto x : values) xmin = std::min(xmin, x)
RECURSIVE Loop(_, _)
Loop(xmin, values) ==
  IF values = <<>> THEN xmin
  ELSE Loop(std_min(xmin, Finite(Head(values))), Tail(values))

\* v3::minimum<T> and v4::minimum<T>: an instantiation that is ill-formed
\* gives no function to call
minimum(ver, T, values) ==
  IF ~(HasTraits(ver, T) /\ MinDeduces(T))
    THEN {[status |-> "ill_formed", value |-> Finite(0)]}
    ELSE {[status |-> "ok",
           value |-> Loop(initialization_value(T), values)]}

\* v1::minimum<T>: T xmin = values[0] reads past the end of an empty vector,
\* which is undefined and may give any value
v1_minimum(values) ==
  IF values = <<>>
    THEN {[status |-> "undefined", value |-> Finite(x)] : x \in Elems}
    ELSE {[status |-> "ok",
           value |-> Loop(Finite(values[1]), Tail(values))]}

\* a call ver::minimum<min_T>(min_values)
CallMinimum(ver) ==
  /\ min_ver' = ver
  /\ min_ret' \in IF ver = "v1" THEN v1_minimum(min_values)
                  ELSE minimum(ver, min_T, min_values)
  /\ UNCHANGED <<min_T, min_values>>
  /\ OnlyMin

MinInit ==
  /\ min_T \in Types
  /\ min_values \in Vectors(MaxLen)
  /\ min_ver = "none"
  /\ min_ret = NoResult
  /\ FilesIdle /\ RhsIdle /\ DtorIdle /\ SyntaxIdle /\ TupleIdle /\ GridIdle
  /\ ArrayIdle /\ RawIdle

MinNext == \E ver \in Versions : CallMinimum(ver)

SpecMin == MinInit /\ [][MinNext]_vars

(***************************************************************************)
(* raii/placement_new.cpp: v2::array                                       *)
(***************************************************************************)

Arrays == 1..NumArrays
Bufs == 1..MaxBufs

\* the pointer memset(a, 255, sizeof(array)) leaves in ptr: every bit set,
\* an address malloc never returned
Garbage == -1

DefaultPtr_Unset == Garbage

\* double * ptr = nullptr: the default member initializer
DefaultPtr == NULL

MovedOut_Keep(p) == p

\* other.ptr = nullptr
MovedOut(p) == NULL

\* free(p) is defined for nullptr and for memory malloc returned that was
\* not freed yet
FreeIsValid(p) == p = NULL \/ (p \in Bufs /\ buffers[p] = "allocated")

\* free(p): the buffers, the count of free calls per buffer and, as freeing
\* anything else is undefined, the state of the process afterwards
Free(p) ==
  /\ buffers' = IF p \in Bufs THEN [buffers EXCEPT ![p] = "freed"]
                ELSE buffers
  /\ frees' = IF p \in Bufs
                THEN [frees EXCEPT ![p] = IF @ < 2 THEN @ + 1 ELSE @]
                ELSE frees
  /\ astatus' \in IF FreeIsValid(p) THEN {astatus}
                  ELSE {"corrupt", "crashed"}

ArrayOp(op, o, freed) ==
  [op |-> op, tgt |-> o, pre |-> arrays[o], freed |-> freed]

Running == astatus # "crashed"

\* auto * a = allocate(): malloc'ed storage with every byte set to 255;
\* no constructor has run
Allocate(o) ==
  /\ Running
  /\ arrays[o].state = "none"
  /\ arrays' = [arrays EXCEPT ![o] = [state |-> "raw", ptr |-> Garbage,
                                      via |-> "memset", heap |-> TRUE]]
  /\ alast' = ArrayOp("allocate", o, NULL)
  /\ UNCHANGED <<buffers, frees, astatus, dtor_calls>>
  /\ OnlyArray

\* new(a) array: the defaulted constructor sets ptr from its initializer
PlacementNew(o) ==
  /\ Running
  /\ arrays[o].state = "raw"
  /\ arrays' = [arrays EXCEPT ![o].state = "live", ![o].ptr = DefaultPtr,
                              ![o].via = "default"]
  /\ alast' = ArrayOp("placement_new", o, NULL)
  /\ UNCHANGED <<buffers, frees, astatus, dtor_calls>>
  /\ OnlyArray

\* what malloc can return: the next buffer, or nullptr when it fails
MallocResults ==
  {NULL} \cup {m \in Bufs : /\ buffers[m] = "unallocated"
                            /\ \A k \in Bufs : k < m => buffers[k] # "unallocated"}

\* array(n): a temporary, or new(a) array(42) into storage from allocate()
ConstructN(o) ==
  /\ Running
  /\ arrays[o].state \in {"none", "raw"}
  /\ \E p \in MallocResults :
       /\ arrays' = [arrays EXCEPT ![o].state = "live", ![o].ptr = p,
                                   ![o].via = "malloc"]
       /\ buffers' = IF p = NULL THEN buffers
                     ELSE [buffers EXCEPT ![p] = "allocated"]
  /\ alast' = ArrayOp("array_n", o, NULL)
  /\ UNCHANGED <<frees, astatus, dtor_calls>>
  /\ OnlyArray

\* *o = std::move(*p), operator=(array&& other): free(ptr); ptr = other.ptr;
\* other.ptr = nullptr. The target is storage from allocate(), with or
\* without a constructor run on it, or any constructed array.
ArrayMoveAssign(o, p) ==
  /\ Running
  /\ arrays[o].state \in {"raw", "live"}
  /\ arrays[p].state = "live"
  /\ Free(arrays[o].ptr)
  /\ arrays' = [arrays EXCEPT ![o].ptr = arrays[p].ptr,
                              ![o].via = "assigned",
                              ![p].ptr = MovedOut(arrays[p].ptr),
                              ![p].via = IF o = p THEN "assigned"
                                         ELSE "moved_from"]
  /\ alast' = ArrayOp("move_assign", o, arrays[o].ptr)
  /\ UNCHANGED dtor_calls
  /\ OnlyArray

\* ~array(): dtor_calls += 1; free(ptr)
ArrayDestroy(o) ==
  /\ Running
  /\ arrays[o].state = "live"
  /\ dtor_calls' = dtor_calls + 1
  /\ Free(arrays[o].ptr)
  /\ arrays' = [arrays EXCEPT ![o].state = "destroyed"]
  /\ alast' = ArrayOp("destroy", o, arrays[o].ptr)
  /\ OnlyArray

\* deallocate(a): free(a) gives back the storage and runs no destructor
Deallocate(o) ==
  /\ Running
  /\ arrays[o].heap
  /\ arrays[o].state \in {"raw", "destroyed"}
  /\ arrays' = [arrays EXCEPT ![o].state = "deallocated"]
  /\ alast' = ArrayOp("deallocate", o, NULL)
  /\ UNCHANGED <<buffers, frees, astatus, dtor_calls>>
  /\ OnlyArray

ArrayInit ==
  /\ ArrayIdle
  /\ FilesIdle /\ RhsIdle /\ DtorIdle /\ SyntaxIdle /\ TupleIdle /\ GridIdle
  /\ MinIdle /\ RawIdle

ArrayNext ==
  \/ \E o \in Arrays : Allocate(o)
  \/ \E o \in Arrays : PlacementNew(o)
  \/ \E o \in Arrays : ConstructN(o)
  \/ \E o, p \in Arrays : ArrayMoveAssign(o, p)
  \/ \E o \in Arrays : ArrayDestroy(o)
  \/ \E o \in Arrays : Deallocate(o)

SpecArray == ArrayInit /\ [][ArrayNext]_vars

(***************************************************************************)
(* smart_pointers/usecase_heavy_objects.cpp: FileHandle used directly, the *)
(* C-style block of main                                                   *)
(***************************************************************************)

RawStep(op, h, arg) == [op |-> op, h |-> h, arg |-> arg]

\* the statements of main's block on foo and bar, in order
MainSeq ==
  << RawStep("write", "foo", ""),
     RawStep("open", "foo", "foo (fh)"),
     RawStep("write", "foo", ""),
     RawStep("close", "foo", ""),
     RawStep("write", "foo", ""),
     RawStep("close", "foo", ""),
     RawStep("open", "foo", "foo (reborn)"),
     RawStep("open", "bar", "bar (fh)"),
     RawStep("assign", "foo", "bar"),
     RawStep("close", "foo", ""),
     RawStep("close", "bar", "") >>

\* the run has left main's sequence of statements
OffMain == -1

\* where the run is in main's sequence after it makes the call step
Follow(step) ==
  IF mpos # OffMain /\ mpos < Len(MainSeq) /\ MainSeq[mpos + 1] = step
    THEN mpos + 1
    ELSE OffMain

RawOutcome_Checked(op, name) ==
  IF op \in {"write", "close"} /\ name \notin RawFiles
    THEN "rejected" ELSE "accepted"

\* open, close and write look at no state before they act
RawOutcome(op, name) == "accepted"

RawCall(op, h, arg) ==
  [op |-> op, h |-> h, arg |-> arg, name |-> raw_name[h],
   outcome |-> RawOutcome(op, raw_name[h])]

\* h.open(name)
RawOpen(h, name) ==
  /\ raw_opens[name] < MaxOpens
  /\ raw_last' = RawCall("open", h, name)
  /\ IF raw_last'.outcome = "accepted"
       THEN /\ raw_name' = FileHandle_open(raw_name, h, name)
            /\ raw_opens' = [raw_opens EXCEPT ![name] = @ + 1]
       ELSE UNCHANGED <<raw_name, raw_opens>>
  /\ mpos' = Follow(RawStep("open", h, name))
  /\ UNCHANGED raw_closes
  /\ OnlyRaw

\* h.close(): "closing: " << name_, whatever name_ is
RawClose(h) ==
  /\ raw_name[h] \in RawFiles => raw_closes[raw_name[h]] < MaxCloses
  /\ raw_last' = RawCall("close", h, "")
  /\ IF raw_last'.outcome = "accepted"
       THEN /\ raw_name' = FileHandle_close(raw_name, h)
            /\ raw_closes' = IF raw_name[h] \in RawFiles
                               THEN [raw_closes EXCEPT ![raw_name[h]] = @ + 1]
                               ELSE raw_closes
       ELSE UNCHANGED <<raw_name, raw_closes>>
  /\ mpos' = Follow(RawStep("close", h, ""))
  /\ UNCHANGED raw_opens
  /\ OnlyRaw

\* h.write(): "writing to: " << name_
RawWrite(h) ==
  /\ raw_last' = RawCall("write", h, "")
  /\ mpos' = Follow(RawStep("write", h, ""))
  /\ UNCHANGED <<raw_name, raw_opens, raw_closes>>
  /\ OnlyRaw

\* h = g: the implicit copy assignment copies name_
RawAssign(h, g) ==
  /\ h # g
  /\ raw_last' = RawCall("assign", h, g)
  /\ raw_name' = [raw_name EXCEPT ![h] = raw_name[g]]
  /\ mpos' = Follow(RawStep("assign", h, g))
  /\ UNCHANGED <<raw_opens, raw_closes>>
  /\ OnlyRaw

RawInit ==
  /\ RawIdle
  /\ FilesIdle /\ RhsIdle /\ DtorIdle /\ SyntaxIdle /\ TupleIdle /\ GridIdle
  /\ MinIdle /\ ArrayIdle

RawNext ==
  \/ \E h \in RawHandles, name \in RawFiles : RawOpen(h, name)
  \/ \E h \in RawHandles : RawClose(h)
  \/ \E h \in RawHandles : RawWrite(h)
  \/ \E h, g \in RawHandles : RawAssign(h, g)

SpecRaw == RawInit /\ [][RawNext]_vars

(***************************************************************************)
(* Properties                                                              *)
(***************************************************************************)

MoveOps == {"MoveAssign", "MoveConstruct"}
DestroyOps == {"Destroy", "ExitDestroy", "Unwind"}

IsClose(e) == e.ev = "close"
CloseEvents(evs) == SelectSeq(evs, IsClose)

\* the positions of the events of a kind in a sequence of events
Positions(evs, kind) == {i \in 1..Len(evs) : evs[i].ev = kind}

AllDestroyed == \A f \in FileIds : ~live[f]

\* C1: once every File object has been destroyed, each resource opened by a
\* File constructor has been opened once and closed exactly once, whatever
\* constructions, move-constructions, move-assignments and destructions ran.
C1_ClosedExactlyOnce ==
  AllDestroyed =>
    \A h \in Handles : (heap[h] # "free") => (opens[h] = 1 /\ closes[h] = 1)

\* every File is gone, two resources were opened and one of them went
\* through two transfers
C1_Witness ==
  /\ AllDestroyed
  /\ pc = "done"
  /\ Cardinality({h \in Handles : opens[h] = 1}) >= 2
  /\ \E h \in Handles : xfers[h] >= 2

\* C2: in every reachable state no resource has received more than one close
\* call, however many transfers its owner went through.
C2_NoDoubleClose == \A h \in Handles : closes[h] <= 1

\* a resource closed once after two transfers
C2_Witness == \E h \in Handles : closes[h] = 1 /\ xfers[h] >= 2

\* C3: at most one live File holds a given FileHandle.
C3_SingleOwner ==
  \A f, g \in FileIds :
    (f # g /\ live[f] /\ live[g] /\ fh_[f] # NULL) => fh_[f] # fh_[g]

\* two live owning Files, one of them holding a resource it received by a
\* transfer
C3_Witness ==
  \E f, g \in FileIds :
    /\ f # g /\ live[f] /\ live[g]
    /\ fh_[f] # NULL /\ fh_[g] # NULL
    /\ xfers[fh_[f]] >= 1

\* C4: after a transfer between two distinct Files the target holds what the
\* source held before (a resource or nothing) and the source is Empty.
C4_TransferResult ==
  (last.op \in MoveOps /\ last.tgt # last.src) =>
    /\ live[last.tgt] /\ live[last.src]
    /\ fh_[last.tgt] = last.preSrc
    /\ fh_[last.src] = NULL

\* an Owning target has just been move-assigned from an Empty source and is
\* now Empty itself
C4_Witness ==
  /\ last.op = "MoveAssign" /\ last.tgt # last.src
  /\ last.preTgt # NULL /\ last.preSrc = NULL
  /\ fh_[last.tgt] = NULL

\* C5 as stated: write() on an Empty File fails with UseAfterRelease (or no
\* such call can be made) and performs no operation on a resource.
C5_Original ==
  (last.op = "Write" /\ last.preTgt = NULL) =>
    (last.outcome = "UseAfterRelease" /\ last.events = <<>>)

\* C5 amended: write() on an Empty File can be called and is not checked. It
\* reports no UseAfterRelease: it dereferences the null fh_, so the process
\* crashes or prints through an invalid pointer. It makes no open, close or
\* write call on any resource.
C5_WriteOnEmptyIsUnchecked ==
  (last.op = "Write" /\ last.preTgt = NULL) =>
    /\ last.outcome \in {"crash", "garbage"}
    /\ last.events = <<>>
    /\ (last.outcome = "crash") => (pc = "crashed")

\* write() was called on a live File left Empty and the process crashed
C5_Witness ==
  /\ last.op = "Write" /\ last.preTgt = NULL
  /\ live[last.tgt] /\ fh_[last.tgt] = NULL
  /\ last.outcome = "crash"
  /\ \E h \in Handles : xfers[h] >= 1

\* C6: move-assigning into an Owning target distinct from the source closes
\* the target's prior resource exactly once, before the target adopts the
\* source's pointer; the adopted resource is not closed by the transfer, and
\* it is closed once when the File holding it is destroyed.
C6_CloseBeforeAdopt ==
  /\ (last.op = "MoveAssign" /\ last.tgt # last.src /\ last.preTgt # NULL) =>
       /\ CloseEvents(last.events) = <<Ev("close", last.preTgt)>>
       /\ closes[last.preTgt] = 1
       /\ \A i \in Positions(last.events, "close") :
            \A j \in Positions(last.events, "adopt") : i < j
       /\ Positions(last.events, "adopt") # {}
       /\ (last.preSrc # NULL) =>
            (closes[last.preSrc] = 0 /\ fh_[last.tgt] = last.preSrc)
  /\ (last.op \in DestroyOps /\ last.preTgt # NULL /\ xfers[last.preTgt] >= 1) =>
       closes[last.preTgt] = 1

\* an Owning File has just been move-assigned from another Owning File
C6_Witness ==
  /\ last.op = "MoveAssign" /\ last.tgt # last.src
  /\ last.preTgt # NULL /\ last.preSrc # NULL

\* C7: move-assigning a File into itself changes neither its state nor the
\* resource it owns and makes no close call.
C7_SelfAssignNoOp ==
  (last.op = "MoveAssign" /\ last.tgt = last.src) =>
    /\ live[last.tgt]
    /\ fh_[last.tgt] = last.preTgt
    /\ last.events = <<>>
    /\ (last.preTgt # NULL) =>
         (closes[last.preTgt] = 0 /\ heap[last.preTgt] = "alive")

\* an Owning File has just been move-assigned into itself
C7_Witness ==
  last.op = "MoveAssign" /\ last.tgt = last.src /\ last.preTgt # NULL

\* C8: destroying an Owning File makes one close call, on the resource it
\* owns; destroying an Empty File makes none.
C8_DestroyCloses ==
  (last.op \in DestroyOps) =>
    /\ ~live[last.tgt]
    /\ IF last.preTgt # NULL
       THEN /\ CloseEvents(last.events) = <<Ev("close", last.preTgt)>>
            /\ closes[last.preTgt] = 1
       ELSE CloseEvents(last.events) = <<>>

\* the last File has just been destroyed while Owning a resource that had
\* been transferred to it; the other File was destroyed before
C8_Witness ==
  /\ last.op = "Destroy" /\ last.preTgt # NULL
  /\ xfers[last.preTgt] >= 1
  /\ AllDestroyed

\* C9: the resources the Files of a scope own when an exception is thrown
\* are unclosed at the throw and have each been closed exactly once, during
\* unwinding, when control reaches the handler; a normal scope exit does the
\* same by the time control leaves the block.
C9_ClosedOnUnwind ==
  /\ (last.op \in {"Throw", "ScopeEnd"}) =>
       \A h \in ownedAtExit : closes[h] = 0
  /\ (pc \in {"handler", "done"}) =>
       \A h \in ownedAtExit : closes[h] = 1 /\ heap[h] = "deleted"

\* the handler is reached after a throw from a scope holding an Owning File
C9_Witness == pc = "handler" /\ ownedAtExit # {}

\* a FileHandle that open was called on and close was not
Usable(h) ==
  /\ heap[h] = "alive"
  /\ opens[h] = 1 /\ closes[h] = 0
  /\ name_[h] \in Names

\* C11: a File whose fh_ is non-null holds a FileHandle that has been opened
\* and has not been closed (nor deleted).
C11_OwningIsOpen ==
  \A f \in FileIds : (live[f] /\ fh_[f] # NULL) => Usable(fh_[f])

\* a live File holds an open resource it received by a transfer, after another
\* resource has been closed
C11_Witness ==
  \E f \in FileIds :
    /\ live[f] /\ fh_[f] # NULL /\ xfers[fh_[f]] >= 1
    /\ \E h \in Handles : closes[h] = 1

\* C12 as stated: every live File holds an opened, not-yet-closed resource.
C12_Original ==
  \A f \in FileIds : live[f] => (fh_[f] # NULL /\ Usable(fh_[f]))

\* C12 amended: the constructor File(std::string) leaves the new File holding
\* a resource opened exactly once and not closed, and a live File never holds
\* an unopened or closed resource; but a live File can hold no resource at
\* all (after it was moved from), and such a File is not ready to be used.
C12_ConstructedIsReady ==
  /\ (last.op = "Construct") =>
       /\ live[last.tgt] /\ fh_[last.tgt] # NULL
       /\ Usable(fh_[last.tgt])
       /\ last.events = <<Ev("open", fh_[last.tgt])>>
  /\ \A f \in FileIds : live[f] => (fh_[f] = NULL \/ Usable(fh_[f]))

\* a File has just been constructed while another live File is Empty
C12_Witness ==
  /\ last.op = "Construct"
  /\ \E g \in FileIds : g # last.tgt /\ live[g] /\ fh_[g] = NULL

\* C13: a transfer makes at most one close call, and none when its target
\* was Empty, which is always the case in a move-construction.
C13_AtMostOneClosePerTransfer ==
  (last.op \in MoveOps) =>
    /\ Len(CloseEvents(last.events)) <= 1
    /\ (last.preTgt = NULL) => (CloseEvents(last.events) = <<>>)
    /\ (last.op = "MoveConstruct") => (last.preTgt = NULL)

\* a File has just been move-constructed from an Owning File without a close,
\* after an earlier transfer did close a resource
C13_Witness ==
  /\ last.op = "MoveConstruct" /\ last.preSrc # NULL
  /\ CloseEvents(last.events) = <<>>
  /\ \E h \in Handles : closes[h] = 1 /\ heap[h] = "deleted"

\* C14: in the container block, relocating the elements while the vector
\* grows makes no close call (the element moved into the new storage holds the
\* unclosed resource, the old element destroyed afterwards is Empty), the
\* local File moved into the vector is Empty and closes nothing when it is
\* destroyed, no resource is closed while the block runs, and once the block
\* is left every resource has been closed exactly once.
C14_VectorKeepsOwnership ==
  /\ (vec.what = "relocate") =>
       /\ last.op = "MoveConstruct"
       /\ CloseEvents(last.events) = <<>>
       /\ fh_[last.tgt] = last.preSrc
       /\ (last.preSrc # NULL) => Usable(last.preSrc)
  /\ (vec.what = "drop_old") =>
       /\ last.op = "Destroy"
       /\ last.preTgt = NULL
       /\ CloseEvents(last.events) = <<>>
  /\ (vec.what = "push_back") => (live[Local] /\ fh_[Local] = NULL)
  /\ (vec.what = "exit_local" /\ last.preTgt = NULL) =>
       CloseEvents(last.events) = <<>>
  /\ (pc = "body") => \A h \in Handles : closes[h] = 0
  /\ (pc = "body" /\ vec.step = "idle") =>
       \A i \in 1..vec.size, j \in 1..vec.size :
         LET hi == fh_[Cell(vec.arena, i)]
             hj == fh_[Cell(vec.arena, j)]
         IN /\ live[Cell(vec.arena, i)]
            /\ (hi # NULL) => Usable(hi)
            /\ (i # j /\ hi # NULL) => hi # hj
  /\ (pc = "done") =>
       \A h \in Handles : (heap[h] # "free") => (opens[h] = 1 /\ closes[h] = 1)

\* the block of main has run to its end: two elements were emplaced, a local
\* File was pushed, the vector grew twice (the first element was relocated
\* twice), and all three resources are closed
C14_Witness ==
  /\ pc = "done"
  /\ vec.size = 3
  /\ \A h \in 1..3 : opens[h] = 1 /\ closes[h] = 1
  /\ \E h \in Handles : xfers[h] >= 2
  /\ vec.pushed /\ ~live[Local]
  /\ last.op = "Done"

\* C16: make_rhs returns a non-null pointer to an ExpRHS object for the name
\* "exp" and nullptr for every other name.
C16_MakeRhs ==
  (rhs_ret # NotCalled) =>
    IF rhs_name = EXP
    THEN rhs_ret.obj # NULL /\ rhs_ret.dyn = "ExpRHS"
    ELSE rhs_ret.obj = NULL

\* the classes whose destructors ran for the object made last, in order
LastDtors ==
  [i \in 1..(Len(dout) - dmark) |-> dout[dmark + i].cls]

\* the destructor calls the claim lists for a key
ExpectedDtors(k) ==
  IF k = "base" THEN <<"Base">>
  ELSE IF k = "derived" THEN <<"Derived", "Base">>
  ELSE <<"MoreDerived", "Derived", "Base">>

IsPrefix(u, v) == Len(u) <= Len(v) /\ \A i \in 1..Len(u) : u[i] = v[i]

\* C18: destroying the object made by make_obj(key) through b runs the
\* destructor of its actual type first, then each base class destructor up
\* to Base::~Base, each once: Base for "base"; Derived, Base for "derived";
\* MoreDerived, Derived, Base for any other key.
C18_DtorChain ==
  (dcalls > 0) =>
    /\ IsPrefix(LastDtors, ExpectedDtors(dkey))
    /\ (b = "null") => (LastDtors = ExpectedDtors(dkey))
    /\ (b # "null" /\ dcur = "none") => (LastDtors = <<>>)

\* a MoreDerived object made for a key that is neither "base" nor "derived"
\* has been destroyed, after an earlier object
C18_Witness ==
  /\ dcalls = 2 /\ b = "null"
  /\ dkey = "moar"
  /\ LastDtors = <<"MoreDerived", "Derived", "Base">>

\* the class whose poly() the claim says runs
ExpectedPoly(o) == IF o = "OldStyleDerivedWithTypo" THEN "Base" ELSE o

\* C19: use_through_base calls the poly() of the object's dynamic type for
\* Base, Derived, MoreDerived and OldStyleDerived, Base::poly() for
\* OldStyleDerivedWithTypo, and always Base::non_poly().
C19_Dispatch ==
  /\ (spos = "non_poly") =>
       sout[Len(sout)] = [cls |-> ExpectedPoly(sarg), fn |-> "poly"]
  /\ (spos = "idle" /\ suses > 0) =>
       /\ sout[Len(sout) - 1] = [cls |-> ExpectedPoly(sarg), fn |-> "poly"]
       /\ sout[Len(sout)] = [cls |-> "Base", fn |-> "non_poly"]
  /\ Len(sout) = 2 * suses - (CASE spos = "idle" -> 0
                                [] spos = "non_poly" -> 1
                                [] spos = "poly" -> 2)

\* use_through_base has returned for an OldStyleDerivedWithTypo after it ran
\* for an OldStyleDerived
C19_Witness ==
  /\ spos = "idle" /\ suses >= 2
  /\ sarg = "OldStyleDerivedWithTypo"
  /\ sout[Len(sout) - 3] = [cls |-> "OldStyleDerived", fn |-> "poly"]
  /\ sout[Len(sout) - 1] = [cls |-> "Base", fn |-> "poly"]

\* the indices n-1, ..., n-m
Descending(n, m) == [j \in 1..m |-> n - j]

\* C20: for a tuple built from a_0..a_{n-1}, get<i>() returns a_i for every
\* i < n, and the values are initialized in reverse order: the last element
\* first, element 0 last.
C20_TupleGet ==
  LET n == Len(targs)
  IN /\ inits = Descending(n, Len(inits))
     /\ \A i \in DOMAIN impl : impl[i] = targs[i + 1]
     /\ (tpos = "built") =>
          (DOMAIN impl = 0..(n - 1) /\ Len(inits) = n)
     /\ got.called => (got.i < n /\ got.value = targs[got.i + 1])

\* get<0>() has returned a_0 of a tuple of three different values whose
\* elements were initialized in the order 2, 1, 0
C20_Witness ==
  /\ got.called /\ got.i = 0 /\ got.value = targs[1]
  /\ Len(targs) = 3
  /\ targs[1] # targs[2] /\ targs[2] # targs[3] /\ targs[1] # targs[3]
  /\ inits = <<2, 1, 0>>

\* the objects that own the Grid
Owners == {s \in Slots : holders[s].grid_ # NULL}

\* C17: the shared Grid is never destroyed while a CellAverage, a
\* SpaceDependentRHS or a SomeODESolver holding it is alive, also after the
\* local shared_ptr of make_simulation is gone, and it is destroyed exactly
\* once, when its last holder is destroyed.
C17_GridOutlivesHolders ==
  /\ \A s \in Owners : grid = "alive"
  /\ use_count = Cardinality(Owners)
  /\ deletes <= 1
  /\ (grid = "destroyed") <=> (deletes = 1)
  /\ (grid = "alive") => Owners # {}

\* main after make_simulation has returned: no std::shared_ptr object is
\* left, a CellAverage and a SomeODESolver own the Grid, and it is alive
C17_Witness ==
  /\ \A s \in Slots : holders[s].kind # "shared_ptr"
  /\ \E s, t \in Owners : /\ holders[s].kind = "CellAverage"
                          /\ holders[t].kind = "SomeODESolver"
  /\ use_count = 2
  /\ grid = "alive" /\ deletes = 0

\* the smallest element of a non-empty vector
Smallest(values) ==
  CHOOSE x \in {values[i] : i \in DOMAIN values} :
    \A i \in DOMAIN values : x <= values[i]

\* C21: minimum (v3 and v4) of an empty vector returns the largest
\* representable value of T for an integer type T and infinity for a
\* floating point type; of a non-empty vector it returns the smallest
\* element, as v1::minimum does.
C21_Minimum ==
  min_ver \in {"v3", "v4"} =>
    /\ min_ret.status = "ok"
    /\ (min_values = <<>> /\ is_integral(min_T)) =>
         min_ret.value = numeric_limits_max(min_T)
    /\ (min_values = <<>> /\ is_floating_point(min_T)) =>
         min_ret.value = Infinity
    /\ min_values # <<>> =>
         /\ min_ret.value = Finite(Smallest(min_values))
         /\ \A r \in v1_minimum(min_values) : r.value = min_ret.value

\* the constructed arrays
LiveArrays == {o \in Arrays : arrays[o].state = "live"}

\* C22: for v2::array objects that were initialized (by placement new or a
\* constructor), ptr is nullptr if and only if it does not point to valid
\* malloc'ed memory, after any sequence of move-assignments; every buffer
\* allocated by array(n) is freed exactly once by the time the arrays are
\* destroyed.
C22_PtrNullOrValid ==
  astatus = "ok" =>
    /\ \A o \in LiveArrays :
         arrays[o].ptr # NULL =>
           (arrays[o].ptr \in Bufs /\ buffers[arrays[o].ptr] = "allocated")
    /\ \A m \in Bufs :
         /\ frees[m] <= 1
         /\ (buffers[m] = "freed") <=> (frees[m] = 1)
         /\ (buffers[m] = "allocated") =>
              Cardinality({o \in LiveArrays : arrays[o].ptr = m}) = 1
    /\ LiveArrays = {} => \A m \in Bufs : buffers[m] # "allocated"

\* the run of v2::lifecycle is over: the array from allocate() took the
\* buffer of the temporary array(n), both were destroyed, and the buffer
\* was freed once
C22_Witness ==
  /\ astatus = "ok"
  /\ \E o, p \in Arrays :
       /\ arrays[o].heap /\ arrays[o].state = "deallocated"
       /\ arrays[o].via = "assigned" /\ arrays[o].ptr \in Bufs
       /\ frees[arrays[o].ptr] = 1
       /\ arrays[p].state = "destroyed" /\ arrays[p].via = "moved_from"
  /\ dtor_calls = 2

\* C24: a move-assignment into an array from allocate() on which no
\* constructor ran frees the garbage ptr, which malloc never returned;
\* after new(a) array the same assignment frees only nullptr.
C24_AssignNeedsPlacementNew ==
  alast.op = "move_assign" =>
    /\ alast.pre.via = "memset" =>
         /\ alast.freed = Garbage
         /\ alast.freed \notin Bufs \cup {NULL}
         /\ astatus # "ok"
    /\ alast.pre.via = "default" => alast.freed = NULL

\* *a = array(n) right after allocate(): the segfault of v2::lifecycle
C24_Witness ==
  /\ alast.op = "move_assign"
  /\ alast.pre.state = "raw" /\ alast.pre.via = "memset"
  /\ alast.freed = Garbage
  /\ astatus = "crashed"

\* the handles whose name_ is the file n
Naming(n) == {h \in RawHandles : raw_name[h] = n}

\* C23: the raw FileHandle API enforces no lifecycle: write and close are
\* accepted on a handle that was never opened or is already closed, a copy
\* assignment leaves two handles for one file, and main's sequence closes
\* "bar (fh)" twice and never closes "foo (reborn)".
C23_NoLifecycle ==
  /\ raw_last.op \in {"write", "close"} => raw_last.outcome = "accepted"
  /\ (raw_last.op = "assign" /\ raw_name[raw_last.arg] \in RawFiles) =>
       Naming(raw_name[raw_last.arg]) = RawHandles
  /\ mpos = Len(MainSeq) =>
       /\ raw_opens["bar (fh)"] = 1 /\ raw_closes["bar (fh)"] = 2
       /\ raw_opens["foo (reborn)"] = 1 /\ raw_closes["foo (reborn)"] = 0
       /\ Naming("foo (reborn)") = {}

\* the end of main's block: the double close and the leak
C23_Witness ==
  /\ mpos = Len(MainSeq)
  /\ raw_last = [op |-> "close", h |-> "bar", arg |-> "", name |-> "bar (fh)",
                 outcome |-> "accepted"]
  /\ raw_closes["bar (fh)"] = 2
  /\ raw_opens["foo (reborn)"] = 1 /\ raw_closes["foo (reborn)"] = 0

====
